---- MODULE Spec2Model ----
(***************************************************************************)
(* Model of gc::Graph (src/src/Graph.cpp): the graph builder with its two  *)
(* build operations, BuildFromSVM (relation based) and BuildFromPointCloud *)
(* (geometry based).                                                       *)
(*                                                                         *)
(* Numbers.  Every float of the program is an integer in units of 1/1000   *)
(* (Scale): a depth z in millimetres, a weight w in thousandths, an angle  *)
(* w2 in milliradians.  FNaN stands for the float NaN and FInf for +inf.   *)
(* Colour channels are the bytes 0..255 themselves and a colour distance   *)
(* is kept in units of 1/255 (the code divides each channel by 255.).      *)
(* Indices are 0-based as in the code; a TLA+ sequence is 1-based, so      *)
(* element idx of a vector v is v[idx + 1].                                *)
(*                                                                         *)
(* Left out: the GC_DEBUG and printf output, and max_curv, which is only   *)
(* printed.  Reading rel_probability[0] of an empty vector is undefined;   *)
(* it either faults (BuildFromSVMFault) or yields some value (GarbageW).   *)
(* 0/0 in float is NaN.  GetIdx is declared in Graph.h; it is the          *)
(* row-major index, which the tests col != 0 and idx % width != 0 of the   *)
(* two passes and the neighbour offsets agree with.                        *)
(***************************************************************************)
EXTENDS Integers, Sequences, FiniteSets, TLC

VARIABLES nodes, relations, edges, pcl_cloud, normals,
          e_out, num_edges, arg, last, calls

vars == <<nodes, relations, edges, pcl_cloud, normals,
          e_out, num_edges, arg, last, calls>>

----------------------------------------------------------------------------
(* Number encoding *)

Scale == 1000

FNaN == -99999

FInf == 99999

Unset == -88888

\* isnan()
IsNaN(x) == x = FNaN

\* fabs(x - y) on floats: NaN if either operand is NaN
FAbsDiff(x, y) ==
  IF IsNaN(x) \/ IsNaN(y) THEN FNaN
  ELSE IF x >= y THEN x - y ELSE y - x

\* float division x / y of two non-negative floats, result in thousandths
FDiv(x, y) ==
  IF IsNaN(x) \/ IsNaN(y) THEN FNaN
  ELSE IF y = 0 THEN (IF x = 0 THEN FNaN ELSE FInf)
  ELSE (x * Scale) \div y

\* floor of the square root of a natural number
ISqrt(n) == CHOOSE s \in 0..n : s * s <= n /\ (s + 1) * (s + 1) > n

----------------------------------------------------------------------------
(* Bounds of the model *)

MaxCalls == 2

MaxRel == 2

MaxNodes == 3

----------------------------------------------------------------------------
(* Relation based construction: Graph::BuildFromSVM *)

\* the relation synthesized for a node that has no relation 0-i
SyntheticRelation(i) ==
  [id_0 |-> 0, id_1 |-> i, groundTruth |-> -1, type |-> 1,
   rel_probability |-> <<Scale, 0>>]

\* NodeFound with the test on id_0 left out
NodeFoundIgnoringId0(rel, i) ==
  \E j \in 1..Len(rel) : rel[j].id_1 = i

\* NodeFound accepting the relation i-0 as well
NodeFoundEitherOrientation(rel, i) ==
  \E j \in 1..Len(rel) :
    \/ rel[j].id_0 = 0 /\ rel[j].id_1 = i
    \/ rel[j].id_0 = i /\ rel[j].id_1 = 0

\* inner loop of the connectivity check: is there a relation 0-i
NodeFound(rel, i) ==
  \E j \in 1..Len(rel) : rel[j].id_0 = 0 /\ rel[j].id_1 = i

\* the connectivity check for i = from .. n-1, appending to rel as it goes
RECURSIVE Repair(_, _, _)
Repair(rel, from, n) ==
  IF from >= n THEN rel
  ELSE IF NodeFound(rel, from) THEN Repair(rel, from + 1, n)
  ELSE Repair(Append(rel, SyntheticRelation(from)), from + 1, n)

ConnectivityCheck(rel, n) == Repair(rel, 1, n)

\* SVMEdge reading element 1 of rel_probability instead of element 0
SVMEdgeIndex1(r, g) ==
  [a |-> r.id_0, b |-> r.id_1, type |-> 1,
   w |-> IF Len(r.rel_probability) > 1 THEN r.rel_probability[2] ELSE g,
   w2 |-> Unset]

\* the edge made from one relation; g is what reading element 0 of an
\* empty rel_probability yields when the read does not fault
SVMEdge(r, g) ==
  [a |-> r.id_0, b |-> r.id_1, type |-> 1,
   w |-> IF Len(r.rel_probability) > 0 THEN r.rel_probability[1] ELSE g,
   w2 |-> Unset]

\* the positions (1-based) of the relations whose rel_probability is empty
EmptyProbability(rel) ==
  {j \in 1..Len(rel) : Len(rel[j].rel_probability) = 0}

HasEmptyProbability(rel) == EmptyProbability(rel) # {}

\* the edge emission loop over all relations; g[j] is what the read of
\* element 0 yields at a relation j whose rel_probability is empty
SVMEdges(rel, g) ==
  [j \in 1..Len(rel) |->
     SVMEdge(rel[j], IF j \in DOMAIN g THEN g[j] ELSE Unset)]

\* values an out-of-bounds read of rel_probability[0] can produce
GarbageW == {FNaN, 0}

\* BuildFromSVM returns normally
BuildFromSVMReturn ==
  /\ last # "crashed"
  /\ calls < MaxCalls
  /\ LET rel == ConnectivityCheck(relations, nodes)
     IN \E g \in [EmptyProbability(rel) -> GarbageW] :
          /\ relations' = rel
          /\ edges' = edges \o SVMEdges(rel, g)
          /\ e_out' = edges'
          /\ num_edges' = Len(edges')
  /\ last' = "svm"
  /\ calls' = calls + 1
  /\ UNCHANGED <<nodes, pcl_cloud, normals, arg>>

\* index (1-based) of the first relation whose rel_probability is empty
FirstEmpty(rel) ==
  CHOOSE j \in 1..Len(rel) :
    /\ Len(rel[j].rel_probability) = 0
    /\ \A k \in 1..(j - 1) : Len(rel[k].rel_probability) > 0

\* BuildFromSVM faults on rel_probability[0] of an empty vector: the edges
\* of the relations before it are already pushed, nothing is handed back
BuildFromSVMFault ==
  /\ last # "crashed"
  /\ calls < MaxCalls
  /\ LET rel == ConnectivityCheck(relations, nodes)
     IN /\ HasEmptyProbability(rel)
        /\ relations' = rel
        /\ edges' = edges \o SubSeq(SVMEdges(rel, <<>>),
                                   1, FirstEmpty(rel) - 1)
  /\ last' = "crashed"
  /\ calls' = calls + 1
  /\ UNCHANGED <<nodes, pcl_cloud, normals, e_out, num_edges, arg>>

BuildFromSVM == BuildFromSVMReturn \/ BuildFromSVMFault

----------------------------------------------------------------------------
(* Geometry based construction: Graph::BuildFromPointCloud *)

z_adapt == 10

\* GetIdx(col, row) of the organized cloud
GetIdx(c, col, row) == row * c.width + col

\* pcl_cloud->points[idx]
Pt(c, idx) == c.points[idx + 1]

\* the colour distance of two points, in units of 1/255
ColorDist(p0, p1) ==
  ISqrt((p0.r - p1.r) * (p0.r - p1.r) + (p0.g - p1.g) * (p0.g - p1.g)
        + (p0.b - p1.b) * (p0.b - p1.b))

\* the linear index of the neighbour of idx in direction d:
\* 0 right, 1 bottom, 2 bottom-right, 3 bottom-left
Neighbour(c, idx, d) ==
  CASE d = 0 -> idx + 1
    [] d = 1 -> idx + c.width
    [] d = 2 -> idx + c.width + 1
    [] d = 3 -> idx + c.width - 1

\* the cells the two passes visit, as linear indices in visiting order
CellSeq(c) ==
  [k \in 1..((c.height - 1) * (c.width - 1)) |->
     GetIdx(c, (k - 1) % (c.width - 1), (k - 1) \div (c.width - 1))]

\* color_dist[idx][d] of the first pass
color_dist(c, idx, d) ==
  IF d = 3 /\ idx % c.width = 0 THEN 255
  ELSE ColorDist(Pt(c, idx), Pt(c, Neighbour(c, idx, d)))

\* the distances the first pass compares against max_color
ComparedDists(c) ==
  {color_dist(c, CellSeq(c)[k], d) :
     k \in 1..Len(CellSeq(c)), d \in 0..2}
  \cup {color_dist(c, CellSeq(c)[k], 3) :
          k \in {m \in 1..Len(CellSeq(c)) : CellSeq(c)[m] % c.width # 0}}

\* max_color after the first pass
MaxColor(c) ==
  LET ds == ComparedDists(c) \cup {0}
  IN CHOOSE m \in ds : \A x \in ds : x <= m

Dot3(v1, v2) ==
  IF \E k \in 1..3 : IsNaN(v1[k]) \/ IsNaN(v2[k]) THEN FNaN
  ELSE v1[1] * v2[1] + v1[2] * v2[2] + v1[3] * v2[3]

\* acos of a dot product given in units of 1/(NScale*NScale), in milliradians
NScale == 10

Acos(x) ==
  IF IsNaN(x) \/ x > NScale * NScale \/ x < -(NScale * NScale) THEN FNaN
  ELSE CASE x = 100 -> 0
         [] x = 0 -> 1571
         [] x = -100 -> 3142

\* the normals angle stored in e.w2 for the edge idx -> nb
NormalsAngle(c, n, idx, nb) ==
  LET angle == IF IsNaN(Pt(c, idx).z) THEN 1570
               ELSE Acos(Dot3(n[idx + 1], n[nb + 1]))
  IN IF ~IsNaN(angle) THEN angle ELSE 1570

\* the condition under which an edge is pushed: both depths valid and
\* z_dist < z_adapt * z of the source point
DepthGate(c, idx, nb) ==
  /\ ~IsNaN(Pt(c, idx).z)
  /\ ~IsNaN(Pt(c, nb).z)
  /\ FAbsDiff(Pt(c, idx).z, Pt(c, nb).z) * Scale < z_adapt * Pt(c, idx).z

\* the edge object e after the assignments of direction d (d = 0..3 with a
\* left neighbour)
DirEdge(c, n, idx, d, max_color) ==
  [a |-> idx, b |-> Neighbour(c, idx, d), type |-> 1,
   w |-> FDiv(color_dist(c, idx, d), max_color),
   w2 |-> NormalsAngle(c, n, idx, Neighbour(c, idx, d))]

\* the edge object e in the else branch of BOTTOM-LEFT (idx in column 0):
\* only e.w is assigned, the rest is what BOTTOM-RIGHT left in e
Col0Edge(c, n, idx, max_color) ==
  [DirEdge(c, n, idx, 2, max_color) EXCEPT !.w = Scale]

\* CellEdges with nothing pushed for BOTTOM-LEFT in column 0
CellEdgesSkipCol0(c, n, idx, max_color) ==
  LET push(d) == IF DepthGate(c, idx, Neighbour(c, idx, d))
                 THEN <<DirEdge(c, n, idx, d, max_color)>> ELSE <<>>
      bl == IF idx % c.width # 0 THEN push(3) ELSE <<>>
  IN push(0) \o push(1) \o push(2) \o bl

\* the edges one cell pushes, in order
CellEdges(c, n, idx, max_color) ==
  LET push(d) == IF DepthGate(c, idx, Neighbour(c, idx, d))
                 THEN <<DirEdge(c, n, idx, d, max_color)>> ELSE <<>>
      bl == IF idx % c.width # 0 THEN push(3)
            ELSE IF DepthGate(c, idx, Neighbour(c, idx, 3))
                 THEN <<Col0Edge(c, n, idx, max_color)>> ELSE <<>>
  IN push(0) \o push(1) \o push(2) \o bl

\* the second pass over the cells k..Len(CellSeq(c))
RECURSIVE CreateGraph(_, _, _, _)
CreateGraph(c, n, k, max_color) ==
  IF k > Len(CellSeq(c)) THEN <<>>
  ELSE CellEdges(c, n, CellSeq(c)[k], max_color)
       \o CreateGraph(c, n, k + 1, max_color)

PCLEdges(c, n) == CreateGraph(c, n, 1, MaxColor(c))

BuildFromPointCloud ==
  /\ last # "crashed"
  /\ calls < MaxCalls
  /\ pcl_cloud' = arg.cloud
  /\ normals' = arg.normals
  /\ edges' = PCLEdges(arg.cloud, arg.normals)
  /\ e_out' = edges'
  /\ num_edges' = Len(edges')
  /\ last' = "pcl"
  /\ calls' = calls + 1
  /\ UNCHANGED <<nodes, relations, arg>>

----------------------------------------------------------------------------
(* Inputs *)

\* probability vectors of the input relations; <<>> is the empty vector
ProbVectors == {<<>>, <<900, 100>>}

RelTypes == {2}

\* relations over three node ids that carry a probability vector
ValidRelations ==
  [id_0 : 0..2, id_1 : 0..2, groundTruth : {1}, type : RelTypes,
   rel_probability : ProbVectors \ {<<>>}]

\* relations from node 0 whose probability vector may be empty
AnyRelations ==
  [id_0 : {0}, id_1 : 0..1, groundTruth : {1}, type : RelTypes,
   rel_probability : ProbVectors]

RelationLists ==
  UNION {[1..k -> ValidRelations] \cup [1..k -> AnyRelations] :
           k \in 0..MaxRel}

ZVals == {FNaN, 1000, 1010}

Colours == {<<0, 0, 0>>, <<30, 40, 0>>, <<60, 80, 0>>}

Normals == {<<0, 0, 10>>, <<0, 0, -10>>, <<FNaN, FNaN, FNaN>>}

GridDims == {<<2, 2>>, <<3, 2>>}

Point(z, col) == [z |-> z, r |-> col[1], g |-> col[2], b |-> col[3]]

\* the frame (cloud and normals) with depths zs, colours cs, normals ns
Frame(dim, zs, cs, ns) ==
  [cloud |-> [width |-> dim[1], height |-> dim[2],
              points |-> [i \in 1..(dim[1] * dim[2]) |-> Point(zs[i], cs[i])]],
   normals |-> ns]

Const(dim, v) == [i \in 1..(dim[1] * dim[2]) |-> v]

Layers(dim, S) == [1..(dim[1] * dim[2]) -> S]

\* frames in which one of depth, colour and normal varies freely over the
\* grid and the other two are uniform
Frames ==
  UNION {
    {Frame(dim, zs, Const(dim, col), Const(dim, nrm)) :
       zs \in Layers(dim, ZVals)}
    \cup {Frame(dim, Const(dim, z), cs, Const(dim, nrm)) :
            cs \in Layers(dim, Colours)}
    \cup {Frame(dim, Const(dim, z), Const(dim, col), ns) :
            ns \in Layers(dim, Normals)}
    : dim \in GridDims, z \in {1000}, col \in {<<0, 0, 0>>},
      nrm \in {<<0, 0, 10>>} }

\* 2x2 frames in which depth, colour and normal vary together
MixedFrames ==
  {Frame(<<2, 2>>, zs, cs, ns) :
     zs \in Layers(<<2, 2>>, {FNaN, 1000}),
     cs \in Layers(<<2, 2>>, {<<0, 0, 0>>, <<30, 40, 0>>}),
     ns \in Layers(<<2, 2>>, {<<0, 0, 10>>, <<10, 0, 0>>})}

\* a few frames for the runs whose relation list varies
FewFrames ==
  {Frame(<<3, 2>>, <<1000, 1000, FNaN, 1010, 1000, 1000>>,
         <<<<0, 0, 0>>, <<30, 40, 0>>, <<0, 0, 0>>,
           <<0, 0, 0>>, <<0, 0, 0>>, <<60, 80, 0>>>>,
         Const(<<3, 2>>, <<0, 0, 10>>))}

NoCloud == [width |-> 0, height |-> 0, points |-> <<>>]

----------------------------------------------------------------------------
(* The builder and its caller *)

\* the state after Graph() or Graph(nrNodes, rel); arg is the frame the
\* caller passes to BuildFromPointCloud
Init ==
  /\ \/ /\ nodes \in 0..MaxNodes
        /\ relations \in RelationLists
        /\ arg \in FewFrames
     \/ /\ nodes = 0
        /\ relations = <<>>
        /\ arg \in Frames \cup MixedFrames
  /\ edges = <<>>
  /\ pcl_cloud = NoCloud
  /\ normals = <<>>
  /\ e_out = <<>>
  /\ num_edges = 0
  /\ last = "none"
  /\ calls = 0

Next == BuildFromSVM \/ BuildFromPointCloud

Spec == Init /\ [][Next]_vars

----------------------------------------------------------------------------
(* Properties *)

\* every index of every relation of rel lies in [0, n)
InRange(rel, n) ==
  \A j \in 1..Len(rel) : rel[j].id_0 < n /\ rel[j].id_1 < n

\* the nodes of [1, n) for which rel holds no relation (0, i)
NoRelationFromZero(rel, n) ==
  {i \in 1..(n - 1) :
     ~\E j \in 1..Len(rel) : rel[j].id_0 = 0 /\ rel[j].id_1 = i}

\* the nodes of [1, n) that rel links to node 0 in neither orientation
NotLinkedToZero(rel, n) ==
  {i \in 1..(n - 1) :
     ~\E j \in 1..Len(rel) :
         \/ rel[j].id_0 = 0 /\ rel[j].id_1 = i
         \/ rel[j].id_0 = i /\ rel[j].id_1 = 0}

\* C1: after BuildFromSVM has returned, the returned edge list holds, for
\* every node i in [1, nodes), an edge whose endpoints are node 0 and node i.
C1_Connectivity ==
  last = "svm" =>
    \A i \in 1..(nodes - 1) :
      \E j \in 1..Len(e_out) :
        \/ e_out[j].a = 0 /\ e_out[j].b = i
        \/ e_out[j].a = i /\ e_out[j].b = 0

\* a first call returned for 3 nodes with in-range relations, none of them
\* from node 0, so that the links to node 0 had to be synthesized
C1_Witness ==
  /\ last = "svm" /\ calls = 1 /\ nodes = 3
  /\ InRange(relations, nodes)
  /\ \E j \in 1..Len(relations) :
       relations[j].groundTruth = 1 /\ relations[j].id_0 # 0
  /\ \E j \in 1..Len(relations) :
       relations[j].groundTruth = -1 /\ relations[j].id_1 = 2

\* every relation of rel has its indices in [0, n) and a probability vector
WithinContract(rel, n) ==
  \A j \in 1..Len(rel) :
    /\ rel[j].id_0 < n /\ rel[j].id_1 < n
    /\ Len(rel[j].rel_probability) > 0

\* C2: the edge list and the edge count a build call returns hold only the
\* edges that call built from its current inputs: after BuildFromSVM (on
\* relations within the input contract) one edge per relation of the
\* repaired relation list, after BuildFromPointCloud the edges of the frame
\* passed in.
C2_FromScratch ==
  /\ (last = "svm" /\ WithinContract(relations, nodes)) =>
       /\ num_edges = Len(relations)
       /\ Len(e_out) = Len(relations)
       /\ \A j \in 1..Len(relations) :
            j <= Len(e_out) =>
              e_out[j].a = relations[j].id_0 /\ e_out[j].b = relations[j].id_1
  /\ last = "pcl" =>
       /\ num_edges = Len(e_out)
       /\ \A j \in 1..Len(e_out) :
            e_out[j].a < Len(pcl_cloud.points) /\ e_out[j].w2 # Unset

\* C3 as stated: the first BuildFromSVM call on a builder whose relations R
\* are in range returns |R| + k edges, k the number of nodes of [1, nodes)
\* that no relation links to node 0 in either orientation.
C3_CountUndirected ==
  [][(calls = 0 /\ last' = "svm" /\ InRange(relations, nodes)) =>
       num_edges' = Len(relations)
                    + Cardinality(NotLinkedToZero(relations, nodes))]_vars

\* C3 amended: the first BuildFromSVM call on a builder whose relations R are
\* in range returns |R| + k edges, k the number of nodes i of [1, nodes) for
\* which R holds no relation with id_0 = 0 and id_1 = i; the count is >= |R|.
C3_CountDirected ==
  [][(calls = 0 /\ last' = "svm" /\ InRange(relations, nodes)) =>
       /\ num_edges' = Len(relations)
                       + Cardinality(NoRelationFromZero(relations, nodes))
       /\ num_edges' >= Len(relations)]_vars

\* a first call returned where a relation (i, 0) was given and the relation
\* (0, i) was synthesized all the same
C3_Witness ==
  /\ last = "svm" /\ calls = 1
  /\ InRange(relations, nodes)
  /\ \E j, k \in 1..Len(relations) :
       /\ relations[j].groundTruth = 1
       /\ relations[j].id_0 # 0 /\ relations[j].id_1 = 0
       /\ relations[k].groundTruth = -1
       /\ relations[k].id_1 = relations[j].id_0
  /\ num_edges = Len(relations)

\* the returned edge j is the edge of a point pair passing the depth gate
GateHolds(c, e) ==
  LET za == c.points[e.a + 1].z
      zb == c.points[e.b + 1].z
  IN /\ za # FNaN /\ zb # FNaN
     /\ (IF za >= zb THEN za - zb ELSE zb - za) * 100 < za

\* C4: every edge (a, b) BuildFromPointCloud returns has valid depths at a
\* and at b and |z_a - z_b| < 0.01 * z_a, for the endpoints stored in it.
C4_DepthGate ==
  last = "pcl" => \A j \in 1..Len(e_out) : GateHolds(pcl_cloud, e_out[j])

\* the normals are unit vectors (no NaN component, squared length 1)
UnitNormals(n) ==
  \A i \in 1..Len(n) :
    /\ n[i][1] # FNaN /\ n[i][2] # FNaN /\ n[i][3] # FNaN
    /\ n[i][1] * n[i][1] + n[i][2] * n[i][2] + n[i][3] * n[i][3] = 100

\* C5: for a cloud of width >= 2 and height >= 2 with unit normals, every
\* edge BuildFromPointCloud returns has w in [0, 1] and w2 in [0, 1.58].
C5_WeightRanges ==
  (/\ last = "pcl"
   /\ pcl_cloud.width >= 2 /\ pcl_cloud.height >= 2
   /\ UnitNormals(normals)) =>
    \A j \in 1..Len(e_out) :
      /\ 0 <= e_out[j].w /\ e_out[j].w <= 1000
      /\ 0 <= e_out[j].w2 /\ e_out[j].w2 <= 1580

\* all points of the frame have one colour, one valid normal and one valid
\* positive depth
UniformFrame(c, n) ==
  /\ Len(c.points) > 0
  /\ \A i \in 1..Len(c.points) : c.points[i] = c.points[1] /\ n[i] = n[1]
  /\ c.points[1].z # FNaN /\ c.points[1].z > 0
  /\ n[1][1] # FNaN /\ n[1][2] # FNaN /\ n[1][3] # FNaN

\* C6: on a uniform frame every returned edge has w = 0 and w2 = 0, and
\* every visited cell has its edges to the right, bottom and bottom-right
\* neighbour (and to the bottom-left one off column 0).
C6_UniformGrid ==
  (last = "pcl" /\ UniformFrame(pcl_cloud, normals)) =>
    /\ \A j \in 1..Len(e_out) : e_out[j].w = 0 /\ e_out[j].w2 = 0
    /\ \A row \in 0..(pcl_cloud.height - 2), col \in 0..(pcl_cloud.width - 2) :
         LET idx == row * pcl_cloud.width + col
             has(b) == \E j \in 1..Len(e_out) :
                         e_out[j].a = idx /\ e_out[j].b = b
         IN /\ has(idx + 1)
            /\ has(idx + pcl_cloud.width)
            /\ has(idx + pcl_cloud.width + 1)
            /\ col # 0 => has(idx + pcl_cloud.width - 1)

\* the grid of 3 columns and 2 rows with z = 1.0 everywhere, one colour and
\* one normal
RefGrid(c, n) ==
  /\ c.width = 3 /\ c.height = 2
  /\ \A i \in 1..6 : c.points[i].z = 1000
  /\ \A i \in 1..6 : c.points[i] = c.points[1] /\ n[i] = n[1]

\* C7 as stated: BuildFromPointCloud returns exactly 4 edges on the
\* reference grid.
C7_RefGridFour ==
  (last = "pcl" /\ RefGrid(pcl_cloud, normals)) => num_edges = 4

\* C7 amended: BuildFromPointCloud returns exactly 8 edges on the reference
\* grid (4 from each of the two visited cells).
C7_RefGridEight ==
  (last = "pcl" /\ RefGrid(pcl_cloud, normals)) =>
    num_edges = 8 /\ Len(e_out) = 8

\* BuildFromPointCloud has returned for the reference grid
C7_Witness == last = "pcl" /\ RefGrid(pcl_cloud, normals)

\* C8: a BuildFromSVM call whose relation list holds an index outside
\* [0, nodes) or an empty probability vector does not return edges: when a
\* call has returned, every relation was within the contract and every
\* returned edge has both endpoints in [0, nodes).
C8_FailFast ==
  last = "svm" =>
    /\ \A j \in 1..Len(relations) :
         /\ relations[j].id_0 < nodes /\ relations[j].id_1 < nodes
         /\ Len(relations[j].rel_probability) > 0
    /\ \A j \in 1..Len(e_out) : e_out[j].a < nodes /\ e_out[j].b < nodes

\* C9: the first BuildFromSVM call returns one edge per input relation, in
\* order, with a = id_0, b = id_1, type = 1 and w = the probability at index
\* 0, followed by one edge (0, i, type 1, w = 1.0) for each node i of
\* [1, nodes), in increasing i, without an input relation (0, i).
C9_EdgeEmission ==
  [][(calls = 0 /\ last' = "svm") =>
       LET R == relations
           miss == NoRelationFromZero(relations, nodes)
           k == Cardinality(miss)
       IN /\ Len(e_out') = Len(R) + k
          /\ num_edges' = Len(R) + k
          /\ \A j \in 1..Len(R) :
               /\ e_out'[j].a = R[j].id_0
               /\ e_out'[j].b = R[j].id_1
               /\ e_out'[j].type = 1
               /\ Len(R[j].rel_probability) > 0 =>
                    e_out'[j].w = R[j].rel_probability[1]
          /\ \A m \in 1..k :
               LET e == e_out'[Len(R) + m]
               IN /\ e.a = 0 /\ e.type = 1 /\ e.w = 1000
                  /\ e.b \in miss
                  /\ Cardinality({x \in miss : x <= e.b}) = m]_vars

\* the example: relations [(0, 1, prob = [0.9, 0.1])] with 3 nodes give the
\* edges (0, 1, w = 0.9) and (0, 2, w = 1.0)
C9_Witness ==
  /\ last = "svm" /\ calls = 1 /\ nodes = 3
  /\ Len(relations) = 2
  /\ relations[1].groundTruth = 1 /\ relations[2].groundTruth = -1
  /\ e_out = <<[a |-> 0, b |-> 1, type |-> 1, w |-> 900, w2 |-> Unset],
               [a |-> 0, b |-> 2, type |-> 1, w |-> 1000, w2 |-> Unset]>>

\* C10: no ordered endpoint pair (a, b) occurs twice in the edge list one
\* BuildFromPointCloud call returns.
C10_OneEdgePerDirection ==
  last = "pcl" =>
    \A j, k \in 1..Len(e_out) :
      (e_out[j].a = e_out[k].a /\ e_out[j].b = e_out[k].b) => j = k

====
